---------------------------- MODULE Spec2Model ----------------------------
(***************************************************************************)
(* Rules engine of the Lost Cities backend (backend/domains/game/service.py *)
(* over the dataclasses of backend/shared_types.py).                        *)
(*                                                                          *)
(* A GameState is one record held in the variable game; put, draw and turn  *)
(* are operators from a GameState and the call's arguments to the mutated   *)
(* GameState together with the error the call raised ("none" when it        *)
(* returned).  Python lists are sequences whose END is the top (list.pop()).*)
(***************************************************************************)
EXTENDS Integers, Sequences, FiniteSets, TLC

VARIABLES game, last, nops, rng, game2, calls

vars == <<game, last, nops, rng, game2, calls>>

---------------------------------------------------------------------------
(* Bounds of the exploration *)

\* number of engine calls made on the game after init_game
MaxOps == 3

\* cards left in the deck when the calls of SpecDeckOut start
DeckLeft == 1

\* number of init_game calls of a process
MaxInits == 3

\* times a thread is switched out in the middle of an init_game call
MaxSwitches == 1

\* turns of the end-to-end game
MaxTurns == 58

\* cards of the stacks given to score_expedition
MaxStack == 4

\* null turns made in a row at the end of a played game
MaxNull == 1

\* calls made on the two games of a process
MaxTwo == 2

(* Program constants *)

HandshakesPerColor == 3
MinNumber == 2
MaxNumber == 10
HandSize == 8
ExpeditionCost == 20

---------------------------------------------------------------------------
(* shared_types.py *)

COLORS == <<"RED", "BLUE", "GREEN", "YELLOW", "WHITE", "PURPLE">>

ColorSet == {COLORS[i] : i \in 1..Len(COLORS)}

CardValue == {0} \cup (MinNumber..MaxNumber)

Card == [color : ColorSet, value : CardValue]

PLAYERS == {0, 1}

\* Stack(): items = []
Stack == <<>>

\* Player(): empty hand, one empty Stack per color, score 0
Player == [hand |-> <<>>, expeditions |-> [c \in ColorSet |-> Stack], score |-> 0]

\* the value a draw returns when it raises, and the card of a call without one
NoCard == [color |-> "None", value |-> -1]

\* color = None of draw
None == "None"

---------------------------------------------------------------------------
(* Python list operations used by the engine *)

\* card in xs   (dataclass equality: same color and same value)
Contains(xs, card) == \E i \in 1..Len(xs) : xs[i] = card

\* index of the first element equal to card (0 when there is none)
IndexOf(xs, card) ==
    IF Contains(xs, card)
    THEN CHOOSE i \in 1..Len(xs) : xs[i] = card /\ \A j \in 1..(i-1) : xs[j] # card
    ELSE 0

\* (a remove that takes every equal element)
ListRemoveAll(xs, card) == SelectSeq(xs, LAMBDA x : x # card)

\* xs.remove(card): removes the first element equal to card
ListRemove(xs, card) ==
    LET k == IndexOf(xs, card)
    IN  IF k = 0 THEN xs
        ELSE [i \in 1..(Len(xs)-1) |-> IF i < k THEN xs[i] ELSE xs[i+1]]

\* xs.pop(): the last element, and the list without it
Pop(xs) == [item |-> xs[Len(xs)], rest |-> SubSeq(xs, 1, Len(xs)-1)]

---------------------------------------------------------------------------
(* init_game *)

ColorCardsFromOne(c) ==
    [k \in 1..(HandshakesPerColor + MaxNumber - MinNumber + 1) |->
        [color |-> c,
         value |-> IF k <= HandshakesPerColor THEN 0 ELSE k - HandshakesPerColor]]

\* the 12 cards of one color in construction order: 0, 0, 0, 2, 3, ..., 10
ColorCards(c) ==
    [k \in 1..(HandshakesPerColor + MaxNumber - MinNumber + 1) |->
        [color |-> c,
         value |-> IF k <= HandshakesPerColor THEN 0
                   ELSE k - HandshakesPerColor + MinNumber - 1]]

RECURSIVE BuildDeck(_)
BuildDeck(n) == IF n = 0 THEN <<>> ELSE BuildDeck(n-1) \o ColorCards(COLORS[n])

raw_deck == BuildDeck(Len(COLORS))

\* The process-wide generator of the random module.  Words[seed] holds the
\* successive 32-bit outputs of CPython's generator after random.seed(seed),
\* each cut to its WordBits highest bits, for the seeds the repository's tests
\* use and for the sample SystemSeeds.  The generator is the seed it was last
\* seeded with and the number of outputs taken since.
Words ==
    (7 :>
      <<
        41, 121, 19, 50, 83, 6, 9, 105, 68, 12, 46, 74, 7, 116, 64,
        27, 4, 11, 55, 53, 8, 30, 11, 70, 54, 7, 105, 72, 15, 121, 28,
        80, 80, 74, 121, 7, 73, 74, 50, 6, 124, 28, 5, 71, 109, 17,
        37, 53, 18, 69, 15, 73, 39, 71, 104, 87, 23, 13, 74, 73, 81,
        24, 47, 12, 70, 91, 8, 72, 7, 79, 26, 63, 87, 68, 54, 99, 40,
        59, 74, 118, 58, 46, 38, 31, 101, 23, 89, 99, 31, 10, 73, 38,
        67, 63, 112, 43, 93, 57, 36, 77, 125, 9, 15, 65, 53, 21, 96,
        43, 19, 119, 62, 53, 5, 123, 85, 9, 97, 71, 73, 101, 112, 104,
        40, 43, 88, 44, 76, 63, 74, 102, 58, 8, 107, 11, 120, 34, 60,
        89, 85, 8, 7, 93, 89, 39, 82, 73, 127, 87, 105, 57, 36, 91,
        49, 113, 85, 44, 2, 120, 59, 45, 21, 78, 14, 63, 7, 27, 98,
        36, 16, 94, 31, 50, 50, 117, 111, 63, 10, 21, 57, 51, 70, 35,
        113, 17, 104, 55, 110, 70, 35, 90, 53, 126, 45, 87, 113, 48,
        122, 29, 19, 10, 22, 19, 29, 84, 29, 1, 62, 106, 75, 23, 33,
        36, 0, 18, 53, 68, 47, 78, 72, 40, 121, 16, 88, 109, 65, 121,
        79, 83, 86, 94, 6, 58, 115, 111, 99, 121, 111, 87, 102, 71,
        50, 50, 51, 50, 13, 61, 81, 51, 7, 24, 8, 126, 26, 56, 20, 14,
        43, 76, 6, 13, 0, 72, 19, 68, 12, 121, 46, 78, 3, 9, 111, 26,
        78, 48, 19, 81, 32, 122, 44, 77, 46, 60, 15, 14, 108, 62, 127,
        125, 59, 61, 61, 39, 10, 18, 13, 95, 43, 94, 33, 61, 106, 88,
        20, 66, 2, 26, 121, 121, 67, 46, 18, 88, 69, 117, 3, 97, 67,
        38, 125, 82, 110, 11, 89, 108, 33, 66, 46, 116, 21, 45, 98,
        28, 68, 69, 99, 64, 42, 81, 28, 78, 103, 100, 126, 97, 109,
        24, 103, 30, 104, 51, 94, 102, 29, 25, 66, 63, 45, 93, 3, 126,
        3, 101, 35, 60, 33, 24, 88, 77, 122, 44, 57, 103, 119, 92,
        126, 44, 122, 124, 46, 10, 28, 13, 29, 60, 25, 43, 26, 61, 79,
        126, 115, 78, 107, 0, 61, 116, 83, 44, 102, 82, 10, 106, 84,
        15, 116, 49, 100, 91, 96, 25, 61, 113, 22, 55, 101, 81, 42,
        11, 102, 121, 124, 92, 50, 59, 51, 95, 121, 10, 92, 20, 21,
        127, 16, 3, 19, 75, 115, 59, 103, 83, 18, 78, 105, 76, 125,
        60, 84, 119, 44, 19, 70, 70, 16, 2, 1, 102, 124, 92, 83, 13,
        67, 95, 119, 17, 55, 126, 111, 24, 105, 111, 27, 3, 32, 27,
        37, 64, 30, 97, 75, 41, 33, 69, 53, 106, 16, 7, 116, 94, 45,
        114, 58, 84, 74, 104, 115, 66, 53, 105, 117, 112, 64, 16, 68,
        19, 67, 65, 2, 111, 56, 99, 23, 77, 0, 99, 102, 19, 22, 18,
        60, 79, 92, 15, 71, 7, 41, 87, 66, 67, 71, 61, 100, 99, 13,
        113, 71, 7, 31, 24, 35, 5, 98, 12, 64, 57, 71, 3, 97, 114,
        116, 8, 56, 41, 78, 124, 64, 77, 65, 25, 88, 35, 57, 65, 68,
        103, 61, 64, 120, 31, 89, 66, 112, 112, 120, 118, 33, 118, 71,
        114, 120, 25, 107, 57, 17, 53, 15, 50, 56, 40, 9, 85, 30, 54,
        9, 27, 85, 38, 100, 15, 114, 99, 19, 120, 91, 82, 84, 46, 18,
        32, 113, 17, 123, 59, 28, 95, 121, 12, 50, 113, 62, 20, 126,
        85, 106, 28, 20, 90, 55, 127, 65, 51, 43, 53, 25, 45, 40, 11,
        92, 46, 2, 43, 70, 58, 56, 90, 2, 49, 42, 66, 79, 37, 65, 122,
        8, 14, 126, 117, 100, 29, 124, 112, 13, 10, 33, 34, 5, 115,
        99, 23, 34, 96, 16, 104, 54, 108, 116, 86, 104, 121, 33, 51,
        19, 68, 117, 65, 73, 63, 89, 41, 11, 35, 7, 102, 88, 23, 54,
        114, 9, 34, 120, 2, 81, 11, 102, 33, 10, 77, 109, 28, 8, 33,
        110, 15, 58, 1, 43, 127, 70, 53, 118, 117, 34, 79, 16, 5, 67,
        90, 30, 120, 14, 124, 20, 33, 6, 23, 25, 119, 39, 80, 39, 67,
        97, 26, 37, 57, 64, 86, 22, 34, 44, 102, 2, 127, 32, 4, 1, 2,
        93, 64, 70, 125, 24, 65, 60, 31, 119, 57, 13, 84, 104, 83, 55,
        84, 63, 69, 106, 113, 50, 124, 64, 39, 88, 27, 125, 29, 43,
        25, 106, 112, 90, 93, 81, 17, 51, 126, 44, 125, 6, 107, 16, 1>>)
    @@
    (42 :>
      <<
        81, 14, 3, 94, 35, 31, 28, 17, 94, 13, 86, 94, 114, 69, 11,
        75, 54, 4, 3, 11, 27, 29, 64, 77, 3, 71, 25, 91, 83, 89, 69,
        53, 28, 57, 75, 35, 103, 111, 0, 97, 103, 20, 89, 54, 43, 35,
        19, 27, 122, 97, 43, 13, 11, 48, 12, 45, 108, 44, 77, 33, 103,
        5, 93, 58, 68, 15, 124, 118, 48, 10, 70, 37, 106, 80, 79, 113,
        110, 46, 73, 24, 90, 8, 5, 84, 29, 98, 37, 126, 10, 109, 29,
        110, 12, 48, 35, 58, 81, 106, 46, 20, 47, 45, 26, 85, 34, 89,
        119, 87, 82, 9, 77, 81, 21, 68, 93, 31, 20, 59, 48, 34, 126,
        118, 81, 88, 71, 28, 87, 41, 107, 98, 99, 7, 29, 105, 4, 103,
        40, 51, 34, 8, 27, 116, 120, 72, 112, 91, 40, 27, 83, 63, 50,
        113, 117, 82, 58, 18, 33, 17, 31, 95, 71, 68, 33, 95, 74, 54,
        114, 74, 51, 46, 28, 127, 127, 17, 65, 63, 11, 96, 6, 110, 14,
        19, 80, 20, 101, 87, 54, 76, 8, 49, 48, 76, 127, 59, 67, 32,
        124, 70, 110, 120, 1, 87, 92, 14, 87, 113, 68, 96, 34, 98, 82,
        43, 14, 37, 55, 20, 58, 0, 122, 92, 112, 92, 33, 124, 64, 97,
        22, 64, 116, 13, 111, 80, 38, 107, 81, 64, 77, 25, 19, 47, 97,
        20, 69, 122, 99, 118, 67, 117, 0, 76, 41, 62, 2, 14, 118, 46,
        112, 126, 106, 103, 39, 30, 7, 30, 112, 72, 121, 10, 10, 93,
        62, 104, 8, 125, 97, 68, 98, 16, 16, 84, 60, 121, 70, 21, 33,
        67, 111, 77, 54, 123, 27, 118, 69, 96, 93, 88, 25, 91, 39, 51,
        127, 85, 83, 47, 56, 115, 66, 57, 15, 31, 28, 8, 43, 2, 75,
        70, 29, 75, 28, 0, 9, 90, 80, 7, 29, 8, 115, 4, 110, 42, 9,
        65, 30, 35, 85, 62, 27, 69, 16, 92, 119, 112, 73, 73, 60, 31,
        100, 60, 103, 52, 24, 12, 12, 84, 55, 45, 54, 52, 59, 110, 93,
        6, 86, 83, 125, 82, 12, 7, 51, 93, 43, 102, 110, 13, 31, 24,
        24, 68, 57, 17, 54, 23, 35, 59, 31, 111, 118, 9, 56, 103, 110,
        109, 70, 12, 6, 83, 127, 69, 107, 1, 124, 11, 118, 96, 108,
        30, 21, 52, 62, 61, 27, 110, 51, 115, 7, 21, 48, 0, 126, 49,
        33, 118, 100, 100, 58, 36, 54, 89, 122, 93, 127, 100, 71, 84,
        91, 62, 19, 24, 37, 27, 123, 7, 74, 94, 69, 7, 95, 40, 7, 6,
        74, 61, 64, 117, 109, 67, 20, 7, 122, 65, 10, 108, 23, 8, 76,
        8, 86, 110, 30, 51, 15, 120, 113, 72, 31, 74, 76, 5, 79, 10,
        53, 84, 74, 72, 66, 40, 119, 33, 26, 85, 91, 40, 30, 33, 50,
        16, 85, 82, 38, 58, 40, 118, 96, 119, 9, 1, 58, 79, 127, 72,
        127, 12, 9, 68, 27, 64, 33, 16, 119, 44, 112, 8, 112, 31, 47,
        36, 20, 56, 106, 69, 90, 38, 78, 125, 126, 103, 83, 67, 1, 85,
        104, 70, 38, 119, 84, 13, 120, 112, 17, 33, 14, 113, 13, 95,
        70, 19, 34, 36, 77, 26, 91, 43, 26, 87, 81, 109, 33, 64, 62,
        32, 115, 116, 108, 6, 11, 81, 54, 106, 35, 5, 0, 42, 98, 16,
        81, 125, 33, 20, 94, 56, 70, 90, 54, 71, 1, 14, 9, 120, 113,
        88, 115, 19, 69, 4, 106, 47, 74, 70, 18, 55, 16, 5, 39, 46,
        115, 119, 101, 124, 110, 5, 115, 45, 26, 87, 31, 85, 13, 45,
        99, 71, 113, 111, 52, 124, 79, 95, 19, 118, 119, 30, 110, 20,
        124, 102, 103, 22, 112, 52, 3, 22, 94, 118, 42, 100, 119, 52,
        102, 85, 110, 94, 103, 31, 34, 20, 100, 89, 13, 48, 111, 4,
        109, 60, 28, 25, 104, 117, 58, 44, 39, 105, 101, 111, 29, 28,
        3, 84, 24, 51, 42, 35, 110, 8, 123, 98, 35, 44, 82, 65, 51,
        86, 125, 107, 68, 42, 120, 3, 14, 112, 124, 33, 22, 74, 123,
        125, 33, 4, 13, 76, 55, 44, 93, 100, 40, 55, 77, 125, 65, 14,
        49, 115, 73, 24, 32, 5, 90, 55, 0, 66, 118, 103, 68, 87, 92,
        120, 94, 94, 85, 25, 46, 55, 8, 121, 85, 117, 42, 79, 40, 84,
        108, 15, 92, 115, 38, 64, 39, 85, 52, 41, 51, 89, 37, 70, 16,
        24, 53, 85, 120, 48, 86, 95, 115, 22, 78, 72, 38, 51, 70, 106,
        0, 38, 36, 26, 55, 100, 74, 77, 83, 41, 59, 56>>)
    @@
    (99 :>
      <<
        51, 48, 25, 76, 22, 29, 31, 17, 97, 11, 32, 93, 49, 67, 87,
        89, 68, 11, 120, 79, 62, 25, 53, 92, 78, 75, 27, 101, 115,
        100, 47, 105, 49, 110, 87, 27, 19, 59, 84, 22, 108, 72, 43,
        10, 121, 91, 67, 86, 99, 11, 60, 40, 51, 5, 34, 71, 0, 54, 26,
        46, 126, 119, 68, 10, 59, 66, 115, 25, 77, 59, 125, 6, 45, 16,
        27, 121, 117, 91, 20, 95, 101, 56, 76, 118, 125, 22, 120, 64,
        84, 22, 4, 14, 2, 21, 60, 87, 104, 53, 10, 119, 54, 80, 11,
        18, 39, 79, 0, 48, 42, 17, 66, 51, 25, 115, 100, 124, 7, 81,
        27, 56, 32, 69, 51, 105, 97, 16, 45, 120, 88, 60, 118, 7, 16,
        94, 110, 91, 76, 99, 95, 19, 77, 120, 52, 15, 12, 15, 18, 37,
        22, 126, 22, 52, 18, 118, 26, 112, 71, 40, 98, 63, 102, 29,
        108, 32, 15, 109, 105, 46, 23, 86, 9, 64, 36, 1, 74, 106, 6,
        43, 27, 48, 51, 43, 105, 103, 51, 49, 53, 104, 47, 68, 11, 23,
        112, 4, 118, 47, 92, 109, 51, 98, 56, 29, 39, 109, 83, 28, 83,
        92, 39, 13, 111, 88, 92, 40, 27, 97, 103, 91, 86, 91, 31, 49,
        37, 56, 96, 122, 10, 112, 56, 53, 123, 116, 32, 8, 64, 37,
        116, 87, 111, 41, 100, 61, 68, 16, 119, 114, 32, 55, 112, 37,
        52, 123, 84, 105, 78, 20, 36, 48, 86, 86, 77, 110, 126, 79,
        85, 91, 56, 24, 48, 43, 113, 25, 44, 0, 85, 45, 88, 37, 123,
        108, 24, 114, 85, 85, 21, 101, 81, 33, 84, 53, 95, 96, 110,
        90, 29, 52, 110, 110, 44, 84, 51, 0, 14, 64, 68, 25, 0, 66,
        39, 121, 86, 125, 95, 126, 21, 65, 100, 103, 56, 119, 26, 33,
        95, 108, 94, 53, 59, 71, 67, 80, 79, 98, 80, 106, 97, 77, 98,
        36, 25, 94, 2, 127, 13, 103, 39, 9, 74, 4, 123, 7, 53, 38, 47,
        124, 71, 80, 121, 90, 75, 73, 37, 24, 96, 12, 126, 110, 101,
        50, 51, 101, 22, 33, 58, 42, 16, 112, 16, 115, 57, 111, 108,
        88, 89, 49, 53, 71, 122, 91, 22, 46, 32, 26, 35, 59, 73, 108,
        113, 89, 48, 23, 105, 116, 119, 127, 61, 73, 114, 80, 113,
        117, 60, 85, 21, 125, 9, 68, 30, 127, 58, 66, 1, 14, 42, 101,
        63, 9, 42, 83, 93, 0, 72, 87, 68, 35, 81, 1, 74, 40, 52, 33,
        21, 17, 75, 117, 6, 50, 4, 6, 43, 65, 29, 71, 96, 37, 20, 107,
        56, 7, 89, 99, 53, 29, 103, 24, 14, 62, 21, 34, 35, 84, 46, 9,
        71, 117, 25, 99, 71, 22, 89, 45, 83, 122, 104, 68, 10, 95, 86,
        14, 92, 16, 105, 17, 19, 69, 11, 4, 97, 65, 82, 48, 21, 45,
        111, 100, 91, 29, 78, 77, 97, 123, 78, 20, 43, 98, 6, 114, 43,
        103, 80, 55, 24, 39, 22, 94, 14, 18, 63, 82, 123, 66, 93, 119,
        1, 29, 48, 117, 87, 101, 12, 100, 101, 126, 30, 72, 56, 93,
        101, 77, 111, 113, 10, 112, 104, 20, 112, 113, 107, 21, 99,
        56, 47, 32, 40, 75, 5, 74, 50, 2, 38, 121, 20, 16, 120, 1,
        112, 36, 103, 71, 37, 37, 15, 63, 54, 102, 9, 5, 45, 20, 77,
        87, 40, 108, 42, 84, 41, 103, 106, 123, 4, 48, 104, 34, 78,
        29, 70, 19, 88, 86, 2, 97, 110, 120, 36, 94, 51, 53, 65, 91,
        115, 99, 29, 22, 67, 52, 126, 6, 27, 30, 82, 33, 20, 107, 72,
        12, 55, 0, 72, 120, 3, 107, 25, 16, 115, 122, 23, 80, 38, 7,
        126, 112, 32, 23, 74, 97, 55, 19, 0, 119, 82, 4, 64, 50, 119,
        126, 125, 57, 9, 21, 75, 29, 43, 55, 16, 61, 117, 78, 11, 47,
        64, 20, 29, 93, 73, 62, 26, 91, 109, 12, 55, 78, 25, 115, 102,
        22, 17, 60, 94, 114, 31, 22, 107, 87, 32, 21, 83, 66, 86, 102,
        64, 117, 111, 108, 69, 9, 30, 30, 67, 29, 87, 90, 53, 50, 67,
        71, 9, 30, 32, 41, 98, 72, 42, 63, 24, 12, 101, 80, 3, 120, 4,
        55, 7, 40, 24, 118, 6, 84, 37, 23, 34, 115, 118, 85, 32, 1,
        73, 67, 37, 25, 92, 46, 14, 20, 44, 49, 18, 89, 39, 67, 33,
        25, 57, 7, 120, 122, 3, 45, 29, 18, 77, 10, 106, 110, 48, 2,
        45, 120, 40, 113, 48, 31, 68, 19, 99, 9, 2, 3, 22, 27, 28, 43>>)
    @@
    (123 :>
      <<
        6, 34, 11, 98, 52, 34, 13, 107, 115, 111, 4, 48, 68, 71, 42,
        43, 109, 6, 20, 17, 43, 71, 42, 89, 31, 20, 0, 115, 55, 99,
        11, 112, 76, 48, 8, 0, 40, 93, 57, 13, 115, 5, 11, 85, 18, 16,
        101, 116, 2, 37, 116, 55, 73, 61, 33, 60, 107, 4, 98, 39, 43,
        66, 102, 61, 26, 105, 77, 81, 67, 72, 103, 122, 40, 1, 50,
        114, 98, 82, 65, 55, 87, 68, 81, 101, 85, 76, 113, 106, 62,
        66, 85, 53, 47, 65, 4, 108, 96, 82, 23, 92, 104, 10, 116, 62,
        84, 33, 21, 42, 43, 70, 50, 113, 9, 92, 58, 49, 73, 99, 43, 2,
        24, 75, 11, 106, 80, 46, 1, 114, 45, 127, 29, 51, 68, 64, 92,
        105, 116, 7, 81, 36, 126, 63, 123, 97, 80, 92, 29, 69, 61,
        125, 22, 19, 126, 68, 56, 48, 96, 59, 5, 1, 17, 58, 24, 2, 32,
        102, 45, 87, 34, 122, 55, 81, 53, 0, 13, 79, 8, 65, 45, 90,
        11, 10, 55, 114, 1, 101, 68, 48, 9, 69, 88, 81, 51, 3, 126,
        41, 33, 122, 60, 4, 96, 71, 42, 53, 44, 3, 81, 81, 124, 20,
        113, 123, 53, 8, 91, 111, 86, 18, 47, 85, 30, 95, 10, 105,
        112, 80, 7, 97, 66, 49, 68, 39, 18, 116, 83, 98, 117, 37, 99,
        106, 49, 47, 16, 68, 124, 43, 66, 15, 80, 21, 102, 75, 49, 55,
        7, 94, 17, 58, 85, 2, 44, 57, 111, 94, 94, 92, 125, 91, 85,
        57, 38, 54, 101, 99, 3, 20, 66, 41, 111, 66, 65, 71, 17, 43,
        64, 13, 69, 92, 47, 28, 114, 72, 43, 11, 34, 119, 64, 31, 26,
        113, 41, 33, 50, 5, 120, 64, 10, 122, 25, 64, 25, 97, 127,
        114, 114, 2, 24, 34, 72, 29, 10, 76, 40, 10, 43, 70, 68, 17,
        118, 113, 103, 119, 68, 17, 100, 115, 61, 63, 93, 50, 99, 3,
        32, 91, 106, 106, 73, 110, 62, 43, 50, 117, 28, 107, 64, 118,
        16, 78, 81, 0, 114, 101, 101, 76, 77, 124, 63, 43, 89, 74, 15,
        88, 6, 46, 110, 58, 46, 122, 85, 109, 53, 40, 45, 27, 98, 57,
        43, 103, 96, 24, 105, 127, 23, 48, 125, 103, 7, 107, 53, 48,
        64, 33, 106, 118, 22, 109, 71, 48, 47, 8, 117, 37, 15, 116,
        33, 64, 104, 77, 41, 7, 120, 48, 6, 75, 49, 38, 13, 59, 73,
        97, 123, 90, 41, 31, 82, 57, 34, 107, 56, 72, 73, 44, 31, 121,
        88, 58, 64, 73, 115, 118, 35, 43, 122, 6, 23, 15, 2, 54, 84,
        63, 93, 16, 61, 68, 5, 60, 127, 69, 18, 41, 111, 47, 114, 120,
        28, 76, 110, 4, 59, 64, 115, 116, 113, 76, 99, 121, 36, 90,
        74, 115, 125, 1, 41, 93, 49, 29, 88, 113, 8, 111, 32, 36, 21,
        127, 53, 45, 54, 5, 77, 1, 63, 86, 21, 25, 5, 34, 67, 21, 97,
        94, 118, 67, 107, 24, 38, 63, 110, 112, 59, 28, 36, 67, 11,
        13, 56, 78, 69, 71, 35, 103, 24, 66, 120, 118, 8, 81, 120, 50,
        52, 102, 101, 57, 14, 7, 72, 55, 97, 83, 55, 66, 45, 19, 63,
        17, 24, 118, 27, 125, 30, 124, 4, 31, 116, 26, 9, 51, 118, 3,
        1, 52, 83, 41, 70, 3, 5, 118, 120, 31, 93, 113, 112, 109, 55,
        89, 37, 118, 23, 38, 14, 36, 85, 82, 105, 41, 27, 65, 3, 95,
        46, 100, 19, 59, 28, 53, 28, 65, 84, 117, 55, 50, 71, 24, 49,
        9, 125, 115, 63, 111, 5, 36, 17, 60, 93, 92, 116, 13, 16, 15,
        58, 118, 110, 45, 70, 78, 2, 56, 66, 45, 36, 46, 27, 49, 119,
        6, 13, 65, 106, 113, 96, 12, 75, 85, 41, 94, 10, 99, 85, 26,
        122, 49, 23, 53, 16, 112, 60, 17, 108, 110, 0, 20, 100, 101,
        11, 42, 4, 12, 18, 28, 58, 55, 119, 25, 84, 51, 7, 7, 19, 14,
        59, 89, 11, 17, 85, 5, 45, 56, 122, 103, 104, 26, 104, 30, 30,
        100, 55, 43, 85, 18, 11, 86, 1, 37, 41, 85, 51, 44, 100, 29,
        104, 7, 7, 70, 8, 14, 118, 31, 36, 30, 16, 71, 101, 0, 100,
        113, 77, 114, 98, 82, 110, 112, 109, 69, 33, 117, 53, 124,
        126, 71, 47, 47, 80, 16, 108, 53, 112, 4, 77, 37, 44, 40, 88,
        107, 0, 102, 44, 64, 97, 0, 82, 37, 10, 48, 92, 23, 78, 41,
        56, 110, 13, 93, 76, 122, 95, 68, 25, 51, 81, 86, 9, 24>>)

\* "import random" seeds the generator from the system's entropy, a value
\* the program never sees: an input of the process, drawn here from a sample
SystemSeeds == {7, 99}

\* the integer seeds callers pass
Seeds == DOMAIN Words \ SystemSeeds

\* Optional[int]: <<>> is None, <<s>> is the integer s
NoSeed == <<>>
SeedInputs == {NoSeed} \cup {<<s>> : s \in Seeds}

\* random.seed(s): the generator right after it was seeded with s
Seeded(s) == [seed |-> <<s>>, pos |-> 0]

\* if seed is not None: random.seed(seed)
RandomSeed(r, seed) == IF seed = NoSeed THEN r ELSE Seeded(seed[1])

\* n.bit_length()
RECURSIVE BitLength(_)
BitLength(n) == IF n = 0 THEN 0 ELSE 1 + BitLength(n \div 2)

\* the bits of the widest getrandbits call of a shuffle of the deck
WordBits == BitLength(Len(raw_deck))

\* getrandbits(k): the k highest bits of the next output
GetRandBits(r, k) == Words[r.seed[1]][r.pos + 1] \div 2^(WordBits - k)

\* x[i], x[j] = x[j], x[i]  (0-based i, j)
Exchange(x, i, j) == [x EXCEPT ![i + 1] = x[j + 1], ![j + 1] = x[i + 1]]

\* The position of a thread in a call of init_game: before "if seed is not
\* None: random.seed(seed)", in the loop of random.shuffle(raw_deck) at index
\* i with the list x, or past the shuffle, before the deal and the return;
\* alone tells that no other thread has used the generator since the call
\* began.
Idle == [pc |-> "idle", seed |-> NoSeed, x |-> <<>>, i |-> 0, alone |-> TRUE]

\* the loop of random.shuffle(xs) before its first pass
ShuffleFrame(xs, seed) ==
    [pc |-> "shuffle", seed |-> seed, x |-> xs, i |-> Len(xs) - 1, alone |-> TRUE]

\* init_game(seed) entered: raw_deck is built
CallFrame(seed) ==
    [ShuffleFrame(raw_deck, seed) EXCEPT
        !.pc = IF seed = NoSeed THEN "shuffle" ELSE "seed"]

\* random.shuffle has left its loop
Done(f) == f.pc = "deal"

\* One use of the generator by the call in frame f, the generator in state r:
\* random.seed(seed), or one "r = getrandbits(k)" of randbelow(i + 1) in the
\* loop of random.shuffle, with the exchange x[i], x[j] = x[j], x[i] when
\* r < i + 1 (randbelow asks again otherwise).
CallStep(f, r) ==
    IF f.pc = "seed"
    THEN [frame |-> [f EXCEPT !.pc = "shuffle"], rng |-> RandomSeed(r, f.seed)]
    ELSE LET n == f.i + 1
             j == GetRandBits(r, BitLength(n))
         IN  [frame |-> IF j < n
                        THEN [f EXCEPT !.x = Exchange(f.x, f.i, j), !.i = f.i - 1,
                                       !.pc = IF f.i = 1 THEN "deal" ELSE "shuffle"]
                        ELSE f,
              rng |-> [r EXCEPT !.pos = @ + 1]]

\* the tabulated outputs the call in frame f can still take
StepsLeft(f, r) ==
    IF f.pc = "seed" THEN 1 + Len(Words[f.seed[1]]) ELSE Len(Words[r.seed[1]]) - r.pos

\* the frames and generator states after each of the next n generator uses
\* of the call in frame f, up to the end of the shuffle, when no other thread
\* uses the generator
RECURSIVE CallSteps(_, _, _)
CallSteps(f, r, n) ==
    IF n = 0 \/ Done(f) THEN <<>>
    ELSE IF n = 1 THEN <<CallStep(f, r)>>
    ELSE LET first == CallSteps(f, r, n \div 2)
             mid == first[Len(first)]
         IN  first \o CallSteps(mid.frame, mid.rng, n - n \div 2)

\* the same for all of the call
CallTrace(f, r) == CallSteps(f, r, StepsLeft(f, r))

\* random.shuffle(xs) with the generator in state r: the shuffled list and
\* the generator after it
Shuffle(xs, r) ==
    LET trace == CallTrace(ShuffleFrame(xs, NoSeed), r)
        end == trace[Len(trace)]
    IN  [x |-> end.frame.x, rng |-> end.rng]

\* for _ in range(8): p1.hand.append(raw_deck.pop()); p2.hand.append(raw_deck.pop())
RECURSIVE Deal(_, _, _, _)
Deal(deck, h1, h2, n) ==
    IF n = 0 THEN [deck |-> deck, h1 |-> h1, h2 |-> h2]
    ELSE LET a == Pop(deck)
             b == Pop(a.rest)
         IN  Deal(b.rest, Append(h1, a.item), Append(h2, b.item), n-1)

\* the GameState init_game returns once raw_deck is shuffled
NewGame(shuffled) ==
    LET d == Deal(shuffled, <<>>, <<>>, HandSize)
    IN  [players |-> [p \in PLAYERS |->
              [Player EXCEPT !.hand = IF p = 0 THEN d.h1 ELSE d.h2]],
         current_player |-> 0,
         phase |-> "PLAY",
         deck |-> d.deck,
         discard_piles |-> [c \in ColorSet |-> Stack]]

\* a call of init_game during which no other thread uses the generator, the
\* generator in state r: the new GameState and the generator after the call
InitGame(r, seed) ==
    LET trace == CallTrace(CallFrame(seed), r)
        end == trace[Len(trace)]
    IN  [game |-> NewGame(end.frame.x), rng |-> end.rng]

\* the first init_game of a process, with an integer seed
SeededGame == [seed \in Seeds |-> InitGame(Seeded(seed), <<seed>>)]

\* init_game(seed=seed) with an integer seed, no other call running
init_game(seed) == SeededGame[seed].game

\* random.shuffle(raw_deck) right after random.seed(seed)
SeededDeck == [seed \in Seeds |-> Shuffle(raw_deck, Seeded(seed)).x]

\* the threads of the process that call init_game
THREADS == {"A", "B"}

\* no thread is in a call of init_game
NoCalls == [of |-> [t \in THREADS |-> Idle], switches |-> 0]

---------------------------------------------------------------------------
(* put, draw, turn *)

ErrNone == "none"
ErrNotInHand == "Player does not have that card"
ErrDescending == "Number card must be >= previous number card"
ErrDeckEmpty == "Deck is empty"
ErrNoColor == "Color required when drawing from discard"
\* f"Discard pile {color} is empty"
ErrPileEmpty(color) == "Discard pile " \o color \o " is empty"

\* the error kinds of the specification; the engine raises ValueError for all
InvalidMove == {ErrNotInHand, ErrDescending}
EmptyResource == {ErrDeckEmpty} \cup {ErrPileEmpty(c) : c \in ColorSet}
MissingParameter == {ErrNoColor}

\* last_numbers = [c.value for c in stack if c.value != 0]
last_numbers(stack) ==
    LET nums == SelectSeq(stack, LAMBDA c : c.value # 0)
    IN  [i \in 1..Len(nums) |-> nums[i].value]

\* (a put without the membership test)
HasCardAlways(hand, card) == TRUE

\* if card not in player.hand: raise
HasCard(hand, card) == Contains(hand, card)

\* (the comparison the other way round)
DescendingReversed(stack, card) ==
    LET nums == last_numbers(stack)
    IN  nums # <<>> /\ card.value > nums[Len(nums)]

\* (a handshake exempt from the comparison)
DescendingAfterHandshake(stack, card) ==
    LET nums == last_numbers(stack)
    IN  nums # <<>> /\ card.value # 0 /\ card.value < nums[Len(nums)]

\* (the comparison against the first number, last_numbers[0])
DescendingFromFirst(stack, card) ==
    LET nums == last_numbers(stack)
    IN  nums # <<>> /\ card.value < nums[1]

\* (no comparison at all)
DescendingNever(stack, card) == FALSE

\* if last_numbers and card.value < last_numbers[-1]: raise
Descending(stack, card) ==
    LET nums == last_numbers(stack)
    IN  nums # <<>> /\ card.value < nums[Len(nums)]

\* (popleft of the deque of logic.py)
DeckBottom(deck) == [item |-> deck[1], rest |-> Tail(deck)]

\* card = game.deck.pop()  # top = end
DeckTop(deck) == Pop(deck)

\* (pile.pop(0))
PileBottom(pile) == [item |-> pile[1], rest |-> Tail(pile)]

\* card = pile.pop()  # LIFO
PileTop(pile) == Pop(pile)

\* (a discard that goes to the pile of the card's own color)
putOwnColorPile(g, card, p, target, color) ==
    LET hand == g.players[p].hand
    IN  IF ~HasCard(hand, card)
        THEN [game |-> g, err |-> ErrNotInHand]
        ELSE IF target = "discard"
        THEN [game |-> [g EXCEPT
                          !.discard_piles[card.color] = Append(@, card),
                          !.players[p].hand = ListRemove(@, card)],
              err |-> ErrNone]
        ELSE IF Descending(g.players[p].expeditions[color], card)
        THEN [game |-> g, err |-> ErrDescending]
        ELSE [game |-> [g EXCEPT
                          !.players[p].expeditions[color] = Append(@, card),
                          !.players[p].hand = ListRemove(@, card)],
              err |-> ErrNone]

put(g, card, p, target, color) ==
    LET hand == g.players[p].hand
    IN  IF ~HasCard(hand, card)
        THEN [game |-> g, err |-> ErrNotInHand]
        ELSE IF target = "discard"
        THEN [game |-> [g EXCEPT
                          !.discard_piles[color] = Append(@, card),
                          !.players[p].hand = ListRemove(@, card)],
              err |-> ErrNone]
        ELSE IF Descending(g.players[p].expeditions[color], card)
        THEN [game |-> g, err |-> ErrDescending]
        ELSE [game |-> [g EXCEPT
                          !.players[p].expeditions[color] = Append(@, card),
                          !.players[p].hand = ListRemove(@, card)],
              err |-> ErrNone]

\* (a draw that turns to the discard piles when the deck is empty)
drawFallsBack(g, p, source, color) ==
    IF source = "deck" /\ g.deck # <<>>
    THEN LET top == DeckTop(g.deck)
         IN  [game |-> [g EXCEPT !.deck = top.rest,
                                 !.players[p].hand = Append(@, top.item)],
              err |-> ErrNone, card |-> top.item]
    ELSE IF color = None
    THEN [game |-> g, err |-> ErrNoColor, card |-> NoCard]
    ELSE IF g.discard_piles[color] = <<>>
    THEN [game |-> g, err |-> ErrPileEmpty(color), card |-> NoCard]
    ELSE LET top == PileTop(g.discard_piles[color])
         IN  [game |-> [g EXCEPT !.discard_piles[color] = top.rest,
                                 !.players[p].hand = Append(@, top.item)],
              err |-> ErrNone, card |-> top.item]

draw(g, p, source, color) ==
    IF source = "deck"
    THEN IF g.deck = <<>>
         THEN [game |-> g, err |-> ErrDeckEmpty, card |-> NoCard]
         ELSE LET top == DeckTop(g.deck)
              IN  [game |-> [g EXCEPT !.deck = top.rest,
                                      !.players[p].hand = Append(@, top.item)],
                   err |-> ErrNone, card |-> top.item]
    ELSE IF color = None
    THEN [game |-> g, err |-> ErrNoColor, card |-> NoCard]
    ELSE IF g.discard_piles[color] = <<>>
    THEN [game |-> g, err |-> ErrPileEmpty(color), card |-> NoCard]
    ELSE LET top == PileTop(g.discard_piles[color])
         IN  [game |-> [g EXCEPT !.discard_piles[color] = top.rest,
                                 !.players[p].hand = Append(@, top.item)],
              err |-> ErrNone, card |-> top.item]

\* (a turn that draws although its put raised)
\* (the draw made before the put)
turnDrawsFirst(g, p, play_card, play_target, play_color, draw_source, draw_color) ==
    LET drawn == draw(g, p, draw_source, draw_color)
        played == put(drawn.game, play_card, p, play_target, play_color)
    IN  IF drawn.err # ErrNone THEN drawn
        ELSE [game |-> played.game, err |-> played.err,
              card |-> IF played.err = ErrNone THEN drawn.card ELSE NoCard]

turnAdvancesPlayer(g, p, play_card, play_target, play_color, draw_source, draw_color) ==
    LET played == put(g, play_card, p, play_target, play_color)
        drawn == draw(played.game, p, draw_source, draw_color)
    IN  IF played.err # ErrNone
        THEN [game |-> played.game, err |-> played.err, card |-> NoCard]
        ELSE IF drawn.err # ErrNone THEN drawn
        ELSE [drawn EXCEPT !.game.current_player = 1 - g.current_player]

turnDrawsAnyway(g, p, play_card, play_target, play_color, draw_source, draw_color) ==
    LET played == put(g, play_card, p, play_target, play_color)
        drawn == draw(played.game, p, draw_source, draw_color)
    IN  IF played.err # ErrNone
        THEN [game |-> drawn.game, err |-> played.err, card |-> NoCard]
        ELSE drawn

\* (a turn that ends after its put)
turnPutOnly(g, p, play_card, play_target, play_color, draw_source, draw_color) ==
    LET played == put(g, play_card, p, play_target, play_color)
    IN  [game |-> played.game, err |-> played.err, card |-> NoCard]

\* (a turn that undoes its put when the draw raises)
turnRollsBack(g, p, play_card, play_target, play_color, draw_source, draw_color) ==
    LET played == put(g, play_card, p, play_target, play_color)
        drawn == draw(played.game, p, draw_source, draw_color)
    IN  IF played.err # ErrNone
        THEN [game |-> played.game, err |-> played.err, card |-> NoCard]
        ELSE IF drawn.err # ErrNone
        THEN [game |-> g, err |-> drawn.err, card |-> NoCard]
        ELSE drawn

\* put(...) then draw(...); an exception of put ends the call
turn(g, p, play_card, play_target, play_color, draw_source, draw_color) ==
    LET played == put(g, play_card, p, play_target, play_color)
    IN  IF played.err # ErrNone
        THEN [game |-> played.game, err |-> played.err, card |-> NoCard]
        ELSE draw(played.game, p, draw_source, draw_color)

---------------------------------------------------------------------------
(* Scoring *)

RECURSIVE SumSeq(_)
SumSeq(xs) == IF xs = <<>> THEN 0 ELSE xs[1] + SumSeq(Tail(xs))

score_expedition_general(stack) ==
    LET handshake_count == Len(SelectSeq(stack, LAMBDA c : c.value = 0))
        number_sum == SumSeq(last_numbers(stack))
        base == number_sum - ExpeditionCost
    IN  (handshake_count + 1) * base

score_expedition(stack) ==
    IF stack = <<>> THEN 0
    ELSE LET handshake_count == Len(SelectSeq(stack, LAMBDA c : c.value = 0))
             number_sum == SumSeq(last_numbers(stack))
             base == number_sum - ExpeditionCost
         IN  (handshake_count + 1) * base

\* sum(score_expedition(stack) for stack in player.expeditions.values())
RECURSIVE SumExpeditions(_, _)
SumExpeditions(expeditions, n) ==
    IF n = 0 THEN 0
    ELSE SumExpeditions(expeditions, n-1) + score_expedition(expeditions[COLORS[n]])

\* (a total that counts the hand as a seventh stack)
calculate_score_with_hand(player) ==
    SumExpeditions(player.expeditions, Len(COLORS)) + score_expedition(player.hand)

calculate_score(player) == SumExpeditions(player.expeditions, Len(COLORS))

\* (a tie given to the first player)
get_winner_ties_first(p1, p2) ==
    LET s1 == calculate_score(p1)
        s2 == calculate_score(p2)
    IN  IF s1 >= s2 THEN [is |-> "p1", player |-> p1]
        ELSE [is |-> "p2", player |-> p2]

\* the winning player, or "Draw": the result tells which of the two it is
get_winner(p1, p2) ==
    LET s1 == calculate_score(p1)
        s2 == calculate_score(p2)
    IN  IF s1 > s2 THEN [is |-> "p1", player |-> p1]
        ELSE IF s2 > s1 THEN [is |-> "p2", player |-> p2]
        ELSE [is |-> "Draw", player |-> Player]

---------------------------------------------------------------------------
(* routes.py: POST /game/turn *)

GamePhase == {"PLAY", "DRAW", "GAME_OVER"}

NoScores == [player1 |-> 0, player2 |-> 0, present |-> FALSE]

\* the response of the handler: 200 with a TurnResponse, or 400 with the
\* message of the ValueError
perform_turn(state, play, draw_req) ==
    LET res == turn(state, state.current_player, play.card, play.target, play.color,
                    draw_req.source, draw_req.color)
        p1 == res.game.players[0]
        p2 == res.game.players[1]
    IN  IF res.err # ErrNone
        THEN [status |-> 400, detail |-> res.err, state |-> state,
              game_over |-> FALSE, scores |-> NoScores, winner |-> None]
        ELSE IF res.game.phase = "GAME_OVER"
        THEN [status |-> 200, detail |-> ErrNone, state |-> res.game,
              game_over |-> TRUE,
              scores |-> [player1 |-> p1.score, player2 |-> p2.score, present |-> TRUE],
              winner |-> IF p1.score > p2.score THEN "player1"
                         ELSE IF p2.score > p1.score THEN "player2"
                         ELSE "Draw"]
        ELSE [status |-> 200, detail |-> ErrNone, state |-> res.game,
              game_over |-> FALSE, scores |-> NoScores, winner |-> None]

---------------------------------------------------------------------------
(* tests/test_e2e_api.py: the policy of the end-to-end game *)

\* nums[-1] if nums else None   (0 stands for None: no number is 0)
last_num(stack_items) ==
    LET nums == last_numbers(stack_items)
    IN  IF nums = <<>> THEN 0 ELSE nums[Len(nums)]

can_play(card, stack_items) ==
    LET top == last_num(stack_items)
    IN  IF card.value = 0 THEN top = 0
        ELSE top = 0 \/ card.value >= top

\* the first legal expedition card of the hand, else the first card discarded
PolicyPlay(state) ==
    LET player == state.players[state.current_player]
        hand == player.hand
        legal == {i \in 1..Len(hand) : can_play(hand[i], player.expeditions[hand[i].color])}
    IN  IF legal # {}
        THEN LET i == CHOOSE k \in legal : \A j \in legal : k <= j
             IN  [card |-> hand[i], target |-> "expedition", color |-> hand[i].color]
        ELSE [card |-> hand[1], target |-> "discard", color |-> hand[1].color]

\* the deck while it has cards, else the first non-empty discard pile
PolicyDraw(state) ==
    LET full == {i \in 1..Len(COLORS) : state.discard_piles[COLORS[i]] # <<>>}
    IN  IF state.deck # <<>> \/ full = {}
        THEN [source |-> "deck", color |-> None]
        ELSE [source |-> "discard",
              color |-> COLORS[CHOOSE k \in full : \A j \in full : k <= j]]

---------------------------------------------------------------------------
(* logic.py: the engine on module-level state.  The module holds one deck
   (a deque whose LEFT end, here index 1, is the top), two players and six
   discard piles, created when the module is imported; its put, draw and turn
   take a Player and work on the module's deck and piles. *)

ErrInvalidTarget == "Invalid target for put"
ErrInvalidSource == "Invalid draw source"

\* deck.popleft()
PopLeft(deck) == [item |-> Head(deck), rest |-> Tail(deck)]

\* for _ in range(8): player1.hand.append(deck.popleft()); player2.hand.append(deck.popleft())
RECURSIVE DealLeft(_, _, _, _)
DealLeft(deck, h1, h2, n) ==
    IF n = 0 THEN [deck |-> deck, h1 |-> h1, h2 |-> h2]
    ELSE LET a == PopLeft(deck)
             b == PopLeft(a.rest)
         IN  DealLeft(b.rest, Append(h1, a.item), Append(h2, b.item), n-1)

\* the globals of the module after its import with the generator in state r,
\* and the generator after the import
logic_import(r) ==
    LET shuffled == Shuffle(raw_deck, r)
        d == DealLeft(shuffled.x, <<>>, <<>>, HandSize)
    IN  [module |-> [players |-> [p \in PLAYERS |->
                          [Player EXCEPT !.hand = IF p = 0 THEN d.h1 ELSE d.h2]],
                     deck |-> d.deck,
                     discard_piles |-> [c \in ColorSet |-> Stack]],
         rng |-> shuffled.rng]

\* put(card, player, target, color) on the module m: the module and the
\* player after the call
logic_put(m, card, player, target, color) ==
    IF ~Contains(player.hand, card)
    THEN [module |-> m, player |-> player, err |-> ErrNotInHand]
    ELSE IF target = "discard"
    THEN [module |-> [m EXCEPT !.discard_piles[color] = Append(@, card)],
          player |-> [player EXCEPT !.hand = ListRemove(@, card)],
          err |-> ErrNone]
    ELSE IF target = "expedition"
    THEN LET nums == last_numbers(player.expeditions[color])
         IN  IF nums # <<>> /\ card.value < nums[Len(nums)]
             THEN [module |-> m, player |-> player, err |-> ErrDescending]
             ELSE [module |-> m,
                   player |-> [player EXCEPT !.expeditions[color] = Append(@, card),
                                             !.hand = ListRemove(@, card)],
                   err |-> ErrNone]
    ELSE [module |-> m, player |-> player, err |-> ErrInvalidTarget]

\* draw(player, source, color) on the module m
logic_draw(m, player, source, color) ==
    IF source = "deck"
    THEN IF m.deck = <<>>
         THEN [module |-> m, player |-> player, err |-> ErrDeckEmpty, card |-> NoCard]
         ELSE LET top == PopLeft(m.deck)
              IN  [module |-> [m EXCEPT !.deck = top.rest],
                   player |-> [player EXCEPT !.hand = Append(@, top.item)],
                   err |-> ErrNone, card |-> top.item]
    ELSE IF source = "discard"
    THEN IF color = None
         THEN [module |-> m, player |-> player, err |-> ErrNoColor, card |-> NoCard]
         ELSE IF m.discard_piles[color] = <<>>
         THEN [module |-> m, player |-> player, err |-> ErrPileEmpty(color),
               card |-> NoCard]
         ELSE LET top == Pop(m.discard_piles[color])
              IN  [module |-> [m EXCEPT !.discard_piles[color] = top.rest],
                   player |-> [player EXCEPT !.hand = Append(@, top.item)],
                   err |-> ErrNone, card |-> top.item]
    ELSE [module |-> m, player |-> player, err |-> ErrInvalidSource, card |-> NoCard]

\* put(...) then draw(...)
logic_turn(m, player, play_card, play_target, play_color, draw_source, draw_color) ==
    LET played == logic_put(m, play_card, player, play_target, play_color)
    IN  IF played.err # ErrNone
        THEN [module |-> played.module, player |-> played.player,
              err |-> played.err, card |-> NoCard]
        ELSE logic_draw(played.module, played.player, draw_source, draw_color)

---------------------------------------------------------------------------
(* The calls a client of the engine makes, and their arguments *)

PlayTarget == {"expedition", "discard"}
DrawSource == {"deck", "discard"}

\* cards offered to put: the first and the last card of the hand, and the top
\* card of the deck (a card the player usually does not hold)
CardInputs(g, p) ==
    LET hand == g.players[p].hand
    IN  (IF hand = <<>> THEN {} ELSE {hand[1], hand[Len(hand)]})
        \cup (IF g.deck = <<>> THEN {} ELSE {g.deck[Len(g.deck)]})

\* colors offered as the color argument of put and draw
ColorInputs == {"RED"}

\* (source, color) pairs offered to draw
DrawInputs ==
    {<<"deck", None>>, <<"discard", None>>} \cup {<<"discard", c>> : c \in ColorInputs}

\* the record of a call; only_turns tells that every call made on the game so
\* far was a turn that returned
Call(op, p, card, target, color, source, dcolor, res) ==
    [op |-> op, player |-> p, card |-> card, target |-> target, color |-> color,
     source |-> source, draw_color |-> dcolor, err |-> res.err,
     drawn |-> IF op = "put" THEN NoCard ELSE res.card,
     only_turns |-> last.only_turns /\ op = "turn" /\ res.err = ErrNone]

Init ==
    /\ \E seed \in Seeds :
         /\ game = init_game(seed)
         /\ rng = SeededGame[seed].rng
    /\ last = [op |-> "init_game", player |-> 0, card |-> NoCard, target |-> None,
               color |-> None, source |-> None, draw_color |-> None,
               err |-> ErrNone, drawn |-> NoCard, only_turns |-> TRUE]
    /\ nops = 0
    /\ game2 = None
    /\ calls = NoCalls

PutCall(p, card, target, color) ==
    /\ nops < MaxOps
    /\ LET res == put(game, card, p, target, color)
       IN  /\ game' = res.game
           /\ last' = Call("put", p, card, target, color, None, None, res)
    /\ nops' = nops + 1
    /\ UNCHANGED <<rng, game2, calls>>

DrawCall(p, source, color) ==
    /\ nops < MaxOps
    /\ LET res == draw(game, p, source, color)
       IN  /\ game' = res.game
           /\ last' = Call("draw", p, NoCard, None, None, source, color, res)
    /\ nops' = nops + 1
    /\ UNCHANGED <<rng, game2, calls>>

TurnCall(p, card, target, color, source, dcolor) ==
    /\ nops < MaxOps
    /\ LET res == turn(game, p, card, target, color, source, dcolor)
       IN  /\ game' = res.game
           /\ last' = Call("turn", p, card, target, color, source, dcolor, res)
    /\ nops' = nops + 1
    /\ UNCHANGED <<rng, game2, calls>>

Next ==
    \/ \E p \in PLAYERS : \E card \in CardInputs(game, p) :
         \E target \in PlayTarget : \E color \in ColorInputs :
            PutCall(p, card, target, color)
    \/ \E p \in PLAYERS : \E d \in DrawInputs : DrawCall(p, d[1], d[2])
    \/ \E p \in PLAYERS : \E card \in CardInputs(game, p) :
         \E target \in PlayTarget : \E color \in ColorInputs :
            \E d \in DrawInputs : TurnCall(p, card, target, color, d[1], d[2])

Spec == Init /\ [][Next]_vars

\* The end of a game: the players first draw the deck down to DeckLeft cards,
\* in turn, and the calls of Next start from there.
DrainDeck ==
    /\ nops = 0
    /\ Len(game.deck) > DeckLeft
    /\ LET p == Len(game.deck) % 2
           res == draw(game, p, "deck", None)
       IN  /\ game' = res.game
           /\ last' = Call("draw", p, NoCard, None, None, "deck", None, res)
    /\ UNCHANGED <<nops, rng, game2, calls>>

NextDeckOut ==
    \/ DrainDeck
    \/ Len(game.deck) <= DeckLeft /\ Next

SpecDeckOut == Init /\ [][NextDeckOut]_vars

---------------------------------------------------------------------------
(* The calls of a client of POST /game/turn.  The client sends the state it
   holds and keeps the state of a 200 response; a 400 response leaves it with
   the state it sent. *)

ApiCall(state, play, draw_req, resp) ==
    [op |-> "perform_turn", player |-> state.current_player, card |-> play.card,
     target |-> play.target, color |-> play.color, source |-> draw_req.source,
     draw_color |-> draw_req.color, err |-> resp.detail, drawn |-> NoCard,
     only_turns |-> FALSE, status |-> resp.status, game_over |-> resp.game_over,
     scores |-> resp.scores, winner |-> resp.winner]

ApiTurn(state, play, draw_req) ==
    LET resp == perform_turn(state, play, draw_req)
    IN  /\ game' = IF resp.status = 200 THEN resp.state ELSE game
        /\ last' = ApiCall(state, play, draw_req, resp)

\* if payload.get("game_over"): ... break
GameOverSeen(call) == "game_over" \in DOMAIN call /\ call.game_over

\* one iteration of the loop of the end-to-end game: the loop goes on until a
\* response has game_over (here for MaxTurns iterations at most)
PolicyTurn ==
    /\ nops < MaxTurns
    /\ ~GameOverSeen(last)
    /\ ApiTurn(game, PolicyPlay(game), PolicyDraw(game))
    /\ nops' = nops + 1
    /\ UNCHANGED <<rng, game2, calls>>

\* the end-to-end game
SpecPolicy == Init /\ [][PolicyTurn]_vars

\* the phase a client sends: the one it holds, or GAME_OVER once it sees the
\* deck empty
PhaseInputs(g) == {g.phase} \cup (IF g.deck = <<>> THEN {"GAME_OVER"} ELSE {})

\* the end-to-end game down to DeckLeft cards in the deck
PolicyPrefix ==
    /\ nops = 0
    /\ Len(game.deck) > DeckLeft
    /\ ApiTurn(game, PolicyPlay(game), PolicyDraw(game))
    /\ UNCHANGED <<nops, rng, game2, calls>>

ApiTurnCall(phase, card, target, color, source, dcolor) ==
    /\ nops < MaxOps
    /\ Len(game.deck) <= DeckLeft
    /\ ApiTurn([game EXCEPT !.phase = phase],
               [card |-> card, target |-> target, color |-> color],
               [source |-> source, color |-> dcolor])
    /\ nops' = nops + 1
    /\ UNCHANGED <<rng, game2, calls>>

NextApi ==
    \/ PolicyPrefix
    \/ \E phase \in PhaseInputs(game) :
         \E card \in CardInputs(game, game.current_player) :
           \E target \in PlayTarget : \E color \in ColorInputs :
              \E d \in DrawInputs : ApiTurnCall(phase, card, target, color, d[1], d[2])

SpecApi == Init /\ [][NextApi]_vars

---------------------------------------------------------------------------
(* The init_game calls of one process, each with a seed or with none, made
   by threads that share the generator (FastAPI runs start_game, a plain def,
   in a thread pool, and init_game holds no lock).  A thread runs generator
   uses of its call in a row until it returns or the scheduler switches it
   out, which can happen before any use of the generator, after any of them,
   and between the end of the shuffle and the deal; the other thread runs in
   the meantime.  The record of the calls keeps the seed argument and the
   returned state of every call that returned, and whether the call ran
   alone. *)

InitCall(seed, state, alone) ==
    [op |-> "init_game", seed |-> seed,
     seeds |-> Append(last.seeds, seed), games |-> Append(last.games, state),
     alone |-> Append(last.alone, alone)]

\* the process before its first call of init_game, the generator as the
\* import of random seeded it
InitProcess ==
    /\ game = None
    /\ \E s \in SystemSeeds : rng = Seeded(s)
    /\ last = [op |-> "none", seed |-> NoSeed, seeds |-> <<>>, games |-> <<>>,
               alone |-> <<>>]
    /\ nops = 0
    /\ game2 = None
    /\ calls = NoCalls

\* the frames of the threads once thread t has run: when it used the
\* generator, the calls of the other threads under way are no longer alone
Overlapped(t, used) ==
    [u \in THREADS |->
        IF used /\ u # t /\ calls.of[u].pc # "idle"
        THEN [calls.of[u] EXCEPT !.alone = FALSE]
        ELSE calls.of[u]]

\* Thread t runs its call on from frame f.  It makes the next n generator
\* uses and is switched out there, n at least first; or it makes all of the
\* uses left, deals and returns the new GameState.
RunCall(t, f, first) ==
    /\ \E trace \in {<<[frame |-> f, rng |-> rng]>> \o CallTrace(f, rng)} :
         \/ \E n \in first..(Len(trace) - 1) :
               /\ calls.switches < MaxSwitches
               /\ rng' = trace[n + 1].rng
               /\ calls' = [of |-> [Overlapped(t, n > 0) EXCEPT ![t] = trace[n + 1].frame],
                            switches |-> calls.switches + 1]
               /\ UNCHANGED <<game, last>>
         \/ LET end == trace[Len(trace)]
            IN  /\ Done(end.frame)
                /\ rng' = end.rng
                /\ game' = NewGame(end.frame.x)
                /\ last' = InitCall(end.frame.seed, game', end.frame.alone)
                /\ calls' = [calls EXCEPT !.of = [Overlapped(t, Len(trace) > 1) EXCEPT ![t] = Idle]]
    /\ UNCHANGED game2

\* thread t calls init_game(seed)
InitGameCall(t, seed) ==
    /\ nops < MaxInits
    /\ calls.of[t].pc = "idle"
    /\ RunCall(t, CallFrame(seed), 0)
    /\ nops' = nops + 1

\* thread t, switched out in its call, runs on
InitGameResume(t) ==
    /\ calls.of[t].pc # "idle"
    /\ RunCall(t, calls.of[t], 1)
    /\ UNCHANGED nops

NextInit ==
    \E t \in THREADS :
        \/ \E seed \in SeedInputs : InitGameCall(t, seed)
        \/ InitGameResume(t)

SpecInit == InitProcess /\ [][NextInit]_vars

---------------------------------------------------------------------------
(* score_expedition on the stacks of up to MaxStack cards, of any values in
   any order.  The stack is player 0's expedition of the first color. *)

StackInputs ==
    UNION {[1..n -> {[color |-> COLORS[1], value |-> v] : v \in CardValue}] : n \in 0..MaxStack}

ScoreCallRecord(op, stack, score) == [op |-> op, stack |-> stack, score |-> score]

InitScore ==
    /\ \E stack \in StackInputs : \E seed \in Seeds :
         /\ game = [init_game(seed) EXCEPT !.players[0].expeditions[COLORS[1]] = stack]
         /\ rng = SeededGame[seed].rng
         /\ last = ScoreCallRecord("init_game", stack, 0)
    /\ nops = 0
    /\ game2 = None
    /\ calls = NoCalls

ScoreExpeditionCall ==
    /\ nops = 0
    /\ last' = LET stack == game.players[0].expeditions[COLORS[1]]
                IN  ScoreCallRecord("score_expedition", stack, score_expedition(stack))
    /\ nops' = nops + 1
    /\ UNCHANGED <<game, rng, game2, calls>>

SpecScore == InitScore /\ [][ScoreExpeditionCall]_vars

---------------------------------------------------------------------------
(* A game played on the engine by a client that alternates the players, each
   turn chosen by the policy of the end-to-end test, with calculate_score and
   get_winner called on the game at any point. *)

ScoreCall(op, p, score, won) ==
    [op |-> op, player |-> p, score |-> score, winner |-> won.is,
     returned |-> won.player, err |-> ErrNone, only_turns |-> FALSE]

PlayTurn ==
    /\ game.deck # <<>>
    /\ LET p == nops % Cardinality(PLAYERS)
           view == [game EXCEPT !.current_player = p]
           play == PolicyPlay(view)
           draw_req == PolicyDraw(view)
           res == turn(game, p, play.card, play.target, play.color,
                       draw_req.source, draw_req.color)
       IN  /\ game' = res.game
           /\ last' = Call("turn", p, play.card, play.target, play.color,
                           draw_req.source, draw_req.color, res)
    /\ nops' = nops + 1
    /\ UNCHANGED <<rng, game2, calls>>

CalculateScoreCall(p) ==
    /\ last.op = "turn"
    /\ last' = ScoreCall("calculate_score", p, calculate_score(game.players[p]),
                         [is |-> None, player |-> Player])
    /\ UNCHANGED <<game, nops, rng, game2, calls>>

GetWinnerCall ==
    /\ last.op \in {"init_game", "turn"}
    /\ last' = ScoreCall("get_winner", 0, 0,
                         get_winner(game.players[0], game.players[1]))
    /\ UNCHANGED <<game, nops, rng, game2, calls>>

NextPlay ==
    \/ PlayTurn
    \/ \E p \in PLAYERS : CalculateScoreCall(p)
    \/ GetWinnerCall

SpecPlay == Init /\ [][NextPlay]_vars

---------------------------------------------------------------------------
(* The end of a played game: once the deck is down to DeckLeft cards a player
   may discard a card of the hand onto any pile and draw from the same pile,
   up to MaxNull times in a row. *)

\* the number of null turns made since the last turn of the played game
Nulls(call) == IF "nulls" \in DOMAIN call THEN call.nulls ELSE 0

NullTurnCall(p, card, c) ==
    /\ Len(game.deck) <= DeckLeft
    /\ Nulls(last) < MaxNull
    /\ LET res == turn(game, p, card, "discard", c, "discard", c)
       IN  /\ game' = res.game
           /\ last' = Call("turn", p, card, "discard", c, "discard", c, res)
                        @@ [nulls |-> Nulls(last) + 1]
    /\ UNCHANGED <<nops, rng, game2, calls>>

NextNull ==
    \/ Nulls(last) = 0 /\ PlayTurn
    \/ \E p \in PLAYERS : \E i \in 1..Len(game.players[p].hand) : \E c \in ColorSet :
         NullTurnCall(p, game.players[p].hand[i], c)

SpecNull == Init /\ [][NextNull]_vars

---------------------------------------------------------------------------
(* Two games in one process.  game and game2 are the two games as their
   callers see them; on tells which of the two the latest call was made on. *)

GAMES == {1, 2}

\* the card offered to put: the first card of the hand, or with an empty hand
\* the top card of the deck (a card the player does not hold)
TwoCardInputs(hand, top) == IF hand = <<>> THEN top ELSE {hand[1]}

NoCall ==
    [op |-> "init_game", player |-> 0, card |-> NoCard, target |-> None,
     color |-> None, source |-> None, draw_color |-> None,
     err |-> ErrNone, drawn |-> NoCard, only_turns |-> TRUE, on |-> 0]

TwoCall(on, call) == call @@ [on |-> on]

(* service.py: both games come from init_game, with the same seed *)

InitTwo ==
    /\ \E seed \in Seeds :
         LET first == InitGame(Seeded(seed), <<seed>>)
             second == InitGame(first.rng, <<seed>>)
         IN  /\ game = first.game
             /\ game2 = second.game
             /\ calls = NoCalls
             /\ rng = second.rng
    /\ last = NoCall
    /\ nops = 0

\* the game a call is made on, and the two games after the call
Held(on) == IF on = 1 THEN game ELSE game2

TwoResult(on, res, call) ==
    /\ nops < MaxTwo
    /\ game' = IF on = 1 THEN res.game ELSE game
    /\ game2' = IF on = 2 THEN res.game ELSE game2
    /\ last' = TwoCall(on, call)
    /\ nops' = nops + 1
    /\ UNCHANGED <<rng, calls>>

TwoPut(on, p, card, target, color) ==
    LET res == put(Held(on), card, p, target, color)
    IN  TwoResult(on, res, Call("put", p, card, target, color, None, None, res))

TwoDraw(on, p, source, color) ==
    LET res == draw(Held(on), p, source, color)
    IN  TwoResult(on, res, Call("draw", p, NoCard, None, None, source, color, res))

TwoTurn(on, p, card, target, color, source, dcolor) ==
    LET res == turn(Held(on), p, card, target, color, source, dcolor)
    IN  TwoResult(on, res, Call("turn", p, card, target, color, source, dcolor, res))

TwoTop(g) == IF g.deck = <<>> THEN {} ELSE {g.deck[Len(g.deck)]}

NextTwo ==
    \E on \in GAMES : \E p \in PLAYERS :
        \/ \E card \in TwoCardInputs(Held(on).players[p].hand, TwoTop(Held(on))) :
             \E target \in PlayTarget : \E color \in ColorInputs :
                \/ TwoPut(on, p, card, target, color)
                \/ \E d \in DrawInputs : TwoTurn(on, p, card, target, color, d[1], d[2])
        \/ \E d \in DrawInputs : TwoDraw(on, p, d[1], d[2])

SpecTwo == InitTwo /\ [][NextTwo]_vars

(* logic.py: the first game is played by the module's player1 and player2,
   the second by two players its caller made with Player(); the deck and the
   discard piles of both are the module's.  The process calls random.seed(s)
   before it imports the module. *)

InitLegacy ==
    /\ \E s \in Seeds :
         LET imported == logic_import(Seeded(s))
         IN  /\ game = imported.module
             /\ game2 = [imported.module EXCEPT !.players = [p \in PLAYERS |-> Player]]
             /\ calls = NoCalls
             /\ rng = imported.rng
    /\ last = NoCall
    /\ nops = 0

\* the module after a call: its players are those of the first game
LegacyResult(on, p, res, call) ==
    /\ nops < MaxTwo
    /\ game' = [game EXCEPT !.deck = res.module.deck,
                            !.discard_piles = res.module.discard_piles,
                            !.players[p] = IF on = 1 THEN res.player ELSE @]
    /\ game2' = [game2 EXCEPT !.deck = res.module.deck,
                              !.discard_piles = res.module.discard_piles,
                              !.players[p] = IF on = 2 THEN res.player ELSE @]
    /\ last' = TwoCall(on, call)
    /\ nops' = nops + 1
    /\ UNCHANGED <<rng, calls>>

LegacyPut(on, p, card, target, color) ==
    LET res == logic_put(game, card, Held(on).players[p], target, color)
    IN  LegacyResult(on, p, res,
            Call("put", p, card, target, color, None, None,
                 [err |-> res.err, card |-> NoCard]))

LegacyDraw(on, p, source, color) ==
    LET res == logic_draw(game, Held(on).players[p], source, color)
    IN  LegacyResult(on, p, res,
            Call("draw", p, NoCard, None, None, source, color, res))

LegacyTurn(on, p, card, target, color, source, dcolor) ==
    LET res == logic_turn(game, Held(on).players[p], card, target, color, source, dcolor)
    IN  LegacyResult(on, p, res,
            Call("turn", p, card, target, color, source, dcolor, res))

LegacyTop == IF game.deck = <<>> THEN {} ELSE {game.deck[1]}

NextLegacy ==
    \E on \in GAMES : \E p \in PLAYERS :
        \/ \E card \in TwoCardInputs(Held(on).players[p].hand, LegacyTop) :
             \E target \in PlayTarget : \E color \in ColorInputs :
                \/ LegacyPut(on, p, card, target, color)
                \/ \E d \in DrawInputs : LegacyTurn(on, p, card, target, color, d[1], d[2])
        \/ \E d \in DrawInputs : LegacyDraw(on, p, d[1], d[2])

SpecLegacy == InitLegacy /\ [][NextLegacy]_vars

---------------------------------------------------------------------------
(* Properties *)

Hand(g, p) == g.players[p].hand
Expedition(g, p, c) == g.players[p].expeditions[c]
Pile(g, c) == g.discard_piles[c]

Count(xs, card) == Cardinality({i \in 1..Len(xs) : xs[i] = card})

RECURSIVE ConcatStacks(_, _)
ConcatStacks(stacks, n) ==
    IF n = 0 THEN <<>> ELSE ConcatStacks(stacks, n-1) \o stacks[COLORS[n]]

\* every card of every container of the game
AllCards(g) ==
    g.deck \o Hand(g, 0) \o Hand(g, 1)
    \o ConcatStacks(g.players[0].expeditions, Len(COLORS))
    \o ConcatStacks(g.players[1].expeditions, Len(COLORS))
    \o ConcatStacks(g.discard_piles, Len(COLORS))

NonDecreasing(nums) == \A i \in 1..(Len(nums)-1) : nums[i] <= nums[i+1]

\* everything of the game but player p's hand and the containers named
SameBut(g1, g2, p, touchDeck, touchPile, touchExpedition) ==
    /\ g1.current_player = g2.current_player
    /\ g1.phase = g2.phase
    /\ touchDeck \/ g1.deck = g2.deck
    /\ \A q \in PLAYERS : g1.players[q].score = g2.players[q].score
    /\ \A q \in PLAYERS \ {p} : g1.players[q] = g2.players[q]
    /\ \A c \in ColorSet \ touchPile : Pile(g1, c) = Pile(g2, c)
    /\ \A c \in ColorSet \ touchExpedition : Expedition(g1, p, c) = Expedition(g2, p, c)

\* C1. Conservation: the containers of the game hold 72 cards at all times
\* and, card for card, the multiset of the deck that init_game built.
\* (72 places, each of the 60 different cards present and each handshake
\* present three times: the 54 number cards are present once each.)
C1_Conservation ==
    LET all == AllCards(game)
    IN  /\ Len(all) = 72
        /\ Len(game.deck) + Len(Hand(game, 0)) + Len(Hand(game, 1))
             + Len(ConcatStacks(game.players[0].expeditions, Len(COLORS)))
             + Len(ConcatStacks(game.players[1].expeditions, Len(COLORS)))
             + Len(ConcatStacks(game.discard_piles, Len(COLORS))) = 72
        /\ {all[i] : i \in 1..Len(all)} = Card
        /\ \A c \in ColorSet :
              Count(all, [color |-> c, value |-> 0]) = HandshakesPerColor

C1_Witness ==
    /\ Len(game.deck) < 56
    /\ \E c \in ColorSet : Pile(game, c) # <<>>
    /\ \E p \in PLAYERS : \E c \in ColorSet : Expedition(game, p, c) # <<>>
    /\ \E p \in PLAYERS : Len(Hand(game, p)) # 8

\* the legality rule as the claim words it (an expedition without a number
\* card has no "most recently played non-zero value" to be lower than)
LegalAsClaimed(stack, card) ==
    LET nums == last_numbers(stack)
    IN  \/ stack = <<>>
        \/ card.value = 0
        \/ nums = <<>>
        \/ card.value >= nums[Len(nums)]

\* the legality rule of the code
LegalPlay(stack, card) ==
    LET nums == last_numbers(stack)
    IN  nums = <<>> \/ card.value >= nums[Len(nums)]

IsPutOnExpedition(call, g) ==
    /\ call.op = "put"
    /\ call.target = "expedition"
    /\ Contains(Hand(g, call.player), call.card)

\* C2 as claimed. A put of a hand card onto an expedition succeeds iff the
\* stack is empty, or the card is a handshake, or its value is >= the last
\* number played there; otherwise it fails with InvalidMove.
C2_Original ==
    [][IsPutOnExpedition(last', game) =>
        /\ (last'.err = ErrNone) <=>
              LegalAsClaimed(Expedition(game, last'.player, last'.color), last'.card)
        /\ last'.err \in InvalidMove \cup {ErrNone}]_vars

\* C2 as amended. A put of a hand card onto an expedition succeeds iff the
\* expedition holds no number card yet or the card's value is >= the last
\* number played there: a handshake is refused once a number card lies
\* on the expedition.  Every other put onto an expedition fails with
\* InvalidMove.
C2_ExpeditionLegality ==
    [][IsPutOnExpedition(last', game) =>
        /\ (last'.err = ErrNone) <=>
              LegalPlay(Expedition(game, last'.player, last'.color), last'.card)
        /\ last'.err \in InvalidMove \cup {ErrNone}]_vars

\* a handshake was refused on an expedition that holds a number card
C2_Witness ==
    /\ last.op = "put" /\ last.target = "expedition"
    /\ last.card.value = 0
    /\ last.err = ErrDescending
    /\ last_numbers(Expedition(game, last.player, last.color)) # <<>>

\* C3. Expedition monotonicity: in every expedition the non-zero values,
\* bottom to top, never decrease.
C3_Monotonic ==
    \A p \in PLAYERS : \A c \in ColorSet :
        NonDecreasing(last_numbers(Expedition(game, p, c)))

\* an expedition with two number cards under a refused lower card
C3_Witness ==
    /\ last.op = "put" /\ last.target = "expedition" /\ last.err = ErrDescending
    /\ last.card.value # 0
    /\ Len(last_numbers(Expedition(game, last.player, last.color))) >= 2

\* C4. turn is all-or-nothing for the play: when its put fails the draw is
\* not executed and the GameState is exactly as before, whatever the draw
\* arguments.
C4_TurnPutFails ==
    [][(/\ last'.op = "turn"
        /\ put(game, last'.card, last'.player, last'.target, last'.color).err # ErrNone)
       => /\ game' = game
          /\ last'.err \in InvalidMove
          /\ last'.drawn = NoCard]_vars

\* a turn refused for its play although its draw could have been served
C4_Witness ==
    /\ last.op = "turn" /\ last.err = ErrDescending
    /\ last.source = "deck" /\ game.deck # <<>>

\* C5. Partial turn: when the put of a turn succeeds and its draw fails, the
\* turn fails and the state is the one the put alone produces: the hand is
\* one card smaller and nothing is rolled back.
C5_PartialTurn ==
    [][LET played == put(game, last'.card, last'.player, last'.target, last'.color)
       IN  (/\ last'.op = "turn"
            /\ played.err = ErrNone
            /\ draw(played.game, last'.player, last'.source, last'.draw_color).err # ErrNone)
           => /\ last'.err \in EmptyResource \cup MissingParameter
              /\ game' = played.game
              /\ game' # game
              /\ Len(Hand(game', last'.player)) = Len(Hand(game, last'.player)) - 1
              /\ last'.drawn = NoCard]_vars

\* at the end of the deck: a card played, and no card to draw for it
C5_Witness ==
    /\ last.op = "turn" /\ last.err = ErrDeckEmpty
    /\ game.deck = <<>>
    /\ LET stack == Expedition(game, last.player, last.color)
       IN  /\ last.target = "expedition"
           /\ stack # <<>> /\ stack[Len(stack)] = last.card

\* C6. Discard LIFO: a draw from a non-empty discard pile takes the top of
\* the pile, which is the card most recently discarded there and not drawn
\* back, appends it to the drawer's hand and keeps the rest of the pile.
C6_DiscardLIFO ==
    [][(/\ last'.op = "draw" /\ last'.source = "discard"
        /\ last'.draw_color # None
        /\ Pile(game, last'.draw_color) # <<>>)
       => LET pile == Pile(game, last'.draw_color)
              top == pile[Len(pile)]
          IN  /\ last'.err = ErrNone
              /\ last'.drawn = top
              /\ Pile(game', last'.draw_color) = SubSeq(pile, 1, Len(pile) - 1)
              /\ Hand(game', last'.player) = Append(Hand(game, last'.player), top)
              /\ (/\ last.op = "put" /\ last.target = "discard"
                  /\ last.err = ErrNone /\ last.color = last'.draw_color)
                 => last'.drawn = last.card]_vars

\* a draw from a pile of two cards or more
C6_Witness ==
    /\ last.op = "draw" /\ last.source = "discard" /\ last.err = ErrNone
    /\ Pile(game, last.draw_color) # <<>>
    /\ last.drawn # Pile(game, last.draw_color)[1]

\* C7. put onto a discard pile is legal for every hand card: the card becomes
\* the top of the pile of the color argument, one copy of it leaves the hand,
\* and nothing else changes.
C7_PutDiscard ==
    [][(/\ last'.op = "put" /\ last'.target = "discard"
        /\ Contains(Hand(game, last'.player), last'.card))
       => LET p == last'.player
              c == last'.color
          IN  /\ last'.err = ErrNone
              /\ Pile(game', c) = Append(Pile(game, c), last'.card)
              /\ Len(Hand(game', p)) = Len(Hand(game, p)) - 1
              /\ \A card \in Card :
                    Count(Hand(game', p), card) =
                       Count(Hand(game, p), card) - (IF card = last'.card THEN 1 ELSE 0)
              /\ SameBut(game, game', p, FALSE, {c}, {})]_vars

\* a card discarded onto a non-empty pile of another color than its own
C7_Witness ==
    /\ last.op = "put" /\ last.target = "discard" /\ last.err = ErrNone
    /\ last.card.color # last.color
    /\ Len(Pile(game, last.color)) >= 2

\* C8. put of a card the player does not hold fails with InvalidMove, for
\* both targets and every color, and leaves the GameState unchanged.
C8_PutNotInHand ==
    [][(/\ last'.op = "put"
        /\ ~Contains(Hand(game, last'.player), last'.card))
       => /\ last'.err = ErrNotInHand
          /\ game' = game]_vars

\* a card of the other player's hand refused on an expedition
C8_Witness ==
    /\ last.op = "put" /\ last.err = ErrNotInHand
    /\ last.target = "expedition"
    /\ \E q \in PLAYERS \ {last.player} : Contains(Hand(game, q), last.card)

\* C9. put of a number card lower than the last number card of the
\* expedition fails with InvalidMove and mutates nothing.
C9_PutDescending ==
    [][(/\ IsPutOnExpedition(last', game)
        /\ last'.card.value # 0
        /\ LET nums == last_numbers(Expedition(game, last'.player, last'.color))
           IN  nums # <<>> /\ last'.card.value < nums[Len(nums)])
       => /\ last'.err = ErrDescending
          /\ game' = game
          /\ Contains(Hand(game', last'.player), last'.card)]_vars

\* a number card refused although it is not lower than the first number
C9_Witness ==
    /\ last.op = "put" /\ last.target = "expedition" /\ last.err = ErrDescending
    /\ last.card.value # 0
    /\ LET nums == last_numbers(Expedition(game, last.player, last.color))
       IN  Len(nums) >= 2 /\ last.card.value >= nums[1]

\* the hands of a fresh game, in the order init_game popped them
DealtCards(g) ==
    [i \in 1..(2 * HandSize) |->
        IF i % 2 = 1 THEN Hand(g, 1)[HandSize - (i \div 2)]
        ELSE Hand(g, 0)[HandSize + 1 - (i \div 2)]]

\* C10. draw from a non-empty deck removes the top card of the deck, the end
\* init_game dealt from, appends it to the hand and returns it; the rest of
\* the deck keeps its order and nothing else changes.
C10_DrawDeck ==
    [][(/\ last'.op = "draw" /\ last'.source = "deck"
        /\ game.deck # <<>>)
       => LET p == last'.player
              n == Len(game.deck)
          IN  /\ last'.err = ErrNone
              /\ last'.drawn = game.deck[n]
              /\ game'.deck = SubSeq(game.deck, 1, n - 1)
              /\ Hand(game', p) = Append(Hand(game, p), game.deck[n])
              /\ SameBut(game, game', p, TRUE, {}, {})
              /\ nops = 0 =>
                    \E seed \in Seeds :
                        SeededDeck[seed] = game.deck \o DealtCards(game)]_vars

C10_Witness ==
    /\ last.op = "draw" /\ last.source = "deck" /\ last.err = ErrNone
    /\ Len(game.deck) = 54
    /\ Hand(game, last.player)[Len(Hand(game, last.player))] = last.drawn

\* C11. draw fails exactly when the deck is drawn and empty (EmptyResource),
\* when a discard pile is drawn without a color (MissingParameter, also with
\* all piles empty), and when the pile of the color is empty (EmptyResource);
\* a failing draw leaves the GameState, the hand included, unchanged.
C11_DrawFailures ==
    [][last'.op = "draw" =>
        LET expected ==
              IF last'.source = "deck"
              THEN (IF game.deck = <<>> THEN ErrDeckEmpty ELSE ErrNone)
              ELSE IF last'.draw_color = None THEN ErrNoColor
              ELSE IF Pile(game, last'.draw_color) = <<>>
                   THEN ErrPileEmpty(last'.draw_color)
              ELSE ErrNone
        IN  /\ last'.err = expected
            /\ last'.err # ErrNone => game' = game /\ last'.drawn = NoCard
            /\ last'.err = ErrNone => game' # game]_vars

\* no color given, the deck and all six piles empty
C11_Witness ==
    /\ last.op = "draw" /\ last.source = "discard" /\ last.err = ErrNoColor
    /\ game.deck = <<>>
    /\ \A c \in ColorSet : Pile(game, c) = <<>>

\* C12. A turn that succeeds leaves the hand size of the acting player
\* unchanged; so after any sequence of successful turns from init_game both
\* players hold exactly 8 cards.
C12_TurnKeepsHandSize ==
    /\ [][(last'.op = "turn" /\ last'.err = ErrNone) =>
            /\ Len(Hand(game', last'.player)) = Len(Hand(game, last'.player))
            /\ Contains(Hand(game', last'.player), last'.drawn)]_vars
    /\ [](last.only_turns => \A p \in PLAYERS : Len(Hand(game, p)) = 8)

\* two successful turns and nothing else, the latest onto an expedition
C12_Witness ==
    /\ last.only_turns /\ nops >= 2
    /\ last.op = "turn" /\ last.target = "expedition" /\ last.source = "deck"
    /\ Len(Hand(game, last.player)) = 8

\* C13. End-to-end termination: under the policy of the end-to-end test
\* (first legal expedition card, else discard the first card; draw from the
\* deck while it is not empty) the game terminates after exactly 56 turns:
\* the deck is empty after the 56th turn and not before, no further turn is
\* made, and the scores and the winner are then computable.
C13_PolicyGameEnds ==
    /\ last.op = "perform_turn" => last.status = 200
    /\ nops <= 56
    /\ Len(game.deck) = 56 - nops
    /\ nops = 56 =>
          /\ GameOverSeen(last)
          /\ \A p \in PLAYERS : calculate_score(game.players[p]) \in Int
          /\ get_winner(game.players[0], game.players[1]).is \in {"p1", "p2", "Draw"}

\* what the end-to-end game does: the first 56 turns take one card of the
\* deck each, the later ones draw from a discard pile, and every turn returns
PolicyGameGoesOn ==
    /\ last.op = "perform_turn" =>
          /\ last.status = 200 /\ ~last.game_over
          /\ last.source = IF nops <= 56 THEN "deck" ELSE "discard"
    /\ Len(game.deck) = IF nops <= 56 THEN 56 - nops ELSE 0

\* C14. Game-over detection by perform_turn: when the deck is empty after
\* the draw of a turn the handler sets phase to GAME_OVER and answers
\* game_over = true with scores and winner; while the deck is not empty
\* after the turn it answers game_over = false.
C14_GameOverDetection ==
    (last.op = "perform_turn" /\ last.status = 200) =>
        IF game.deck = <<>>
        THEN /\ game.phase = "GAME_OVER"
             /\ last.game_over
             /\ last.scores.present
             /\ last.winner \in {"player1", "player2", "Draw"}
        ELSE ~last.game_over

\* C15. Turn alternation by perform_turn: after every successful turn that
\* leaves the deck non-empty, current_player of the returned state is the
\* other player.
C15_TurnAlternation ==
    [][(/\ last'.op = "perform_turn" /\ last'.status = 200
        /\ game'.deck # <<>>)
       => game'.current_player = 1 - game.current_player]_vars

\* C16. Final scores of perform_turn: whenever the response has
\* game_over = true, scores.player1 and scores.player2 are calculate_score of
\* the two players of the returned state and winner agrees with get_winner.
C16_FinalScores ==
    (last.op = "perform_turn" /\ last.status = 200 /\ last.game_over) =>
        /\ last.scores.present
        /\ last.scores.player1 = calculate_score(game.players[0])
        /\ last.scores.player2 = calculate_score(game.players[1])
        /\ last.winner =
              LET w == get_winner(game.players[0], game.players[1]).is
              IN  IF w = "p1" THEN "player1" ELSE IF w = "p2" THEN "player2" ELSE "Draw"

\* C17. Engine frame: no call of put, draw or turn, successful or failing,
\* changes current_player, phase or a stored score field; after any sequence
\* of engine calls from init_game, current_player = 0, phase = PLAY and both
\* score fields are 0.
C17_EngineFrame ==
    /\ [][ /\ last'.op \in {"put", "draw", "turn"}
           /\ game'.current_player = game.current_player
           /\ game'.phase = game.phase
           /\ \A p \in PLAYERS : game'.players[p].score = game.players[p].score ]_vars
    /\ [](/\ game.current_player = 0
          /\ game.phase = "PLAY"
          /\ \A p \in PLAYERS : game.players[p].score = 0)

\* a successful turn of player 1, not the first call, with a card in one of
\* that player's expeditions
C17_Witness ==
    /\ nops >= 2
    /\ last.op = "turn" /\ last.err = ErrNone /\ last.player = 1
    /\ \E c \in ColorSet : Expedition(game, 1, c) # <<>>
    /\ game.current_player = 0 /\ game.phase = "PLAY"

\* C18. init_game postcondition: for every seed and for no seed the returned
\* GameState has current_player = 0, phase = PLAY, six empty discard piles,
\* empty expeditions for both players, 8 cards in each hand, 56 cards in the
\* deck, and deck plus hands hold, for each of the six colors, exactly 3 cards
\* of value 0 and exactly one card of each value 2..10 (none of value 1).
C18_InitGamePost ==
    last.op = "init_game" =>
        LET cards == game.deck \o Hand(game, 0) \o Hand(game, 1)
        IN  /\ game.current_player = 0
            /\ game.phase = "PLAY"
            /\ DOMAIN game.discard_piles = ColorSet
            /\ Cardinality(ColorSet) = 6
            /\ \A c \in ColorSet : Pile(game, c) = <<>>
            /\ \A p \in PLAYERS : \A c \in ColorSet : Expedition(game, p, c) = <<>>
            /\ \A p \in PLAYERS : Len(Hand(game, p)) = 8
            /\ Len(game.deck) = 56
            /\ Len(cards) = 72
            /\ \A c \in ColorSet :
                  /\ Count(cards, [color |-> c, value |-> 0]) = 3
                  /\ \A v \in 2..10 : Count(cards, [color |-> c, value |-> v]) = 1
            /\ \A i \in 1..Len(cards) : cards[i].value # 1

\* the first call of the process had no seed and returned, and a later call
\* with a seed, which another thread's call cut in two, returned another
\* state than the state of its seed
C18_Witness ==
    /\ last.op = "init_game" /\ last.seed # NoSeed
    /\ last.seeds[1] = NoSeed
    /\ ~last.alone[Len(last.alone)]
    /\ game # init_game(last.seed[1])

\* C19. Determinism of init_game: two calls with the same integer seed return
\* states with identical deck order and identical hands for both players,
\* whatever other init_game calls, seeded or unseeded, ran in between.
C19_Determinism ==
    last.op = "init_game" =>
        \A i \in 1..Len(last.seeds) : \A j \in 1..Len(last.seeds) :
            (last.seeds[i] # NoSeed /\ last.seeds[i] = last.seeds[j]) =>
                /\ last.games[i].deck = last.games[j].deck
                /\ \A p \in PLAYERS : Hand(last.games[i], p) = Hand(last.games[j], p)

\* what the code does: a call with a seed returns the state of its seed when
\* no other thread used the generator during the call
DeterminismAlone ==
    last.op = "init_game" =>
        \A i \in 1..Len(last.seeds) :
            (last.seeds[i] # NoSeed /\ last.alone[i]) =>
                last.games[i] = init_game(last.seeds[i][1])

\* the run that breaks C19: a thread calls init_game(seed=42) and is switched
\* out in the call, the other thread's init_game(seed=123) runs from entry to
\* return, the first call returns the second shuffle after seed 123, and a
\* third call, init_game(seed=42) again, returns the state of seed 42
TornCall ==
    /\ last.op = "init_game"
    /\ last.seeds = <<<<123>>, <<42>>, <<42>>>>
    /\ last.alone = <<TRUE, FALSE, TRUE>>
    /\ last.games[1] = init_game(123)
    /\ last.games[2] = InitGame(SeededGame[123].rng, NoSeed).game
    /\ last.games[3] = init_game(42)
    /\ last.games[2] # last.games[3]

\* the stack with the cards at positions i and i+1 exchanged
SwapAdjacent(xs, i) ==
    [k \in 1..Len(xs) |-> IF k = i THEN xs[i+1] ELSE IF k = i+1 THEN xs[i] ELSE xs[k]]

\* the values of the cards of a stack, in order
Values(xs) == [k \in 1..Len(xs) |-> xs[k].value]

\* the sum of the values v..10 over the cards of the stack
RECURSIVE SumFrom(_, _)
SumFrom(xs, v) ==
    IF v > 10 THEN 0
    ELSE v * Cardinality({k \in 1..Len(xs) : xs[k].value = v}) + SumFrom(xs, v + 1)

\* C20. score_expedition: the score is 0 for the empty stack and otherwise
\* (h + 1) * (s - 20), h the number of value-0 cards and s the sum of the
\* non-zero values; so a non-empty stack of handshakes only scores
\* -20 * (h + 1), [0,0,2,5] scores -39, [2,3,10] scores -5, [0,2,4] scores
\* -28, and the result does not depend on the order of the cards.
C20_ScoreExpedition ==
    last.op = "score_expedition" =>
        LET stack == last.stack
            h == Cardinality({k \in 1..Len(stack) : stack[k].value = 0})
            s == SumFrom(stack, 1)
        IN  /\ stack = <<>> => last.score = 0
            /\ stack # <<>> => last.score = (h + 1) * (s - 20)
            /\ (stack # <<>> /\ h = Len(stack)) => last.score = (-20) * (h + 1)
            /\ Values(stack) = <<0, 0, 2, 5>> => last.score = -39
            /\ Values(stack) = <<2, 3, 10>> => last.score = -5
            /\ Values(stack) = <<0, 2, 4>> => last.score = -28
            /\ \A i \in 1..(Len(stack) - 1) :
                  score_expedition(SwapAdjacent(stack, i)) = last.score

\* the score of a stack of two handshakes and two numbers, not in the order
\* an expedition allows
C20_Witness ==
    /\ last.op = "score_expedition"
    /\ Values(last.stack) = <<5, 0, 2, 0>>
    /\ last.score = -39
    /\ last.stack = Expedition(game, 0, COLORS[1])

\* the sum of score_expedition over the six stacks, color by color
SixStacks(expeditions) ==
    score_expedition(expeditions["RED"]) + score_expedition(expeditions["BLUE"])
    + score_expedition(expeditions["GREEN"]) + score_expedition(expeditions["YELLOW"])
    + score_expedition(expeditions["WHITE"]) + score_expedition(expeditions["PURPLE"])

\* C21. calculate_score(player) is the sum of score_expedition over the
\* player's six expedition stacks and depends on nothing else: the hand and
\* the stored score field (and the deck and the discard piles, which are not
\* among its arguments) never change the result, and a player with six empty
\* expeditions scores 0.
C21_CalculateScore ==
    last.op = "calculate_score" =>
        LET player == game.players[last.player]
        IN  /\ last.score = SixStacks(player.expeditions)
            /\ calculate_score([player EXCEPT !.hand = <<>>]) = last.score
            /\ calculate_score([player EXCEPT !.hand = game.deck]) = last.score
            /\ calculate_score([player EXCEPT !.score = last.score + 1]) = last.score
            /\ calculate_score([Player EXCEPT !.expeditions = player.expeditions])
                  = last.score
            /\ (\A c \in ColorSet : player.expeditions[c] = <<>>) => last.score = 0

\* the total of a player with cards in two expeditions or more, with cards in
\* the hand and on a discard pile
C21_Witness ==
    /\ last.op = "calculate_score"
    /\ last.score # 0
    /\ Cardinality({c \in ColorSet : Expedition(game, last.player, c) # <<>>}) >= 2
    /\ Hand(game, last.player) # <<>>
    /\ \E c \in ColorSet : Pile(game, c) # <<>>

\* C22. get_winner(p1, p2) returns p1 when calculate_score(p1) >
\* calculate_score(p2), p2 when calculate_score(p2) > calculate_score(p1), and
\* Draw exactly when the totals are equal; it changes neither player's
\* expeditions, hand nor stored score field.
C22_GetWinner ==
    /\ [](last.op = "get_winner" =>
            LET p1 == game.players[0]
                p2 == game.players[1]
                s1 == calculate_score(p1)
                s2 == calculate_score(p2)
            IN  /\ s1 > s2 => (last.winner = "p1" /\ last.returned = p1)
                /\ s2 > s1 => (last.winner = "p2" /\ last.returned = p2)
                /\ last.winner = "Draw" <=> s1 = s2)
    /\ [][last'.op = "get_winner" => game'.players = game.players]_vars

\* the first player wins with cards in the expeditions of both players
C22_Witness ==
    /\ last.op = "get_winner" /\ last.winner = "p1"
    /\ \A p \in PLAYERS : \E c \in ColorSet : Expedition(game, p, c) # <<>>
    /\ calculate_score(game.players[0]) > calculate_score(game.players[1])

\* every handshake of the stack lies below every number card
HandshakesBelow(stack) ==
    \A i \in 1..Len(stack) : \A j \in 1..Len(stack) :
        (stack[i].value = 0 /\ stack[j].value # 0) => i < j

\* C24. Handshakes first: in every reachable state, in each expedition stack
\* every value-0 card lies below every number card; a put of a handshake card
\* onto an expedition that already holds a number card is rejected with an
\* error and leaves the state unchanged.
C24_HandshakesFirst ==
    /\ [](\A p \in PLAYERS : \A c \in ColorSet : HandshakesBelow(Expedition(game, p, c)))
    /\ [][(/\ last'.op \in {"put", "turn"}
           /\ last'.target = "expedition"
           /\ last'.card.value = 0
           /\ last_numbers(Expedition(game, last'.player, last'.color)) # <<>>)
          => (last'.err # ErrNone /\ game' = game)]_vars

\* a handshake of the hand refused on an expedition that holds a handshake
\* under a number card
C24_Witness ==
    /\ last.op = "put" /\ last.target = "expedition"
    /\ last.card.value = 0 /\ last.err = ErrDescending
    /\ Contains(Hand(game, last.player), last.card)
    /\ LET stack == Expedition(game, last.player, last.color)
       IN  /\ \E i \in 1..Len(stack) : stack[i].value = 0
           /\ \E i \in 1..Len(stack) : stack[i].value # 0

\* C25. Color consistency: in every reachable state every card in the
\* expedition stack keyed by color c and every card in the discard pile keyed
\* by color c has color c; a put whose color argument differs from the card's
\* own color does not place the card in the container of the other color.
C25_ColorConsistency ==
    /\ [](\A c \in ColorSet :
            /\ \A i \in 1..Len(Pile(game, c)) : Pile(game, c)[i].color = c
            /\ \A p \in PLAYERS : \A i \in 1..Len(Expedition(game, p, c)) :
                  Expedition(game, p, c)[i].color = c)
    /\ [][(last'.op = "put" /\ last'.color # last'.card.color)
          => /\ Pile(game', last'.color) = Pile(game, last'.color)
             /\ Expedition(game', last'.player, last'.color)
                  = Expedition(game, last'.player, last'.color)]_vars

\* a turn that discards a card of the hand onto the pile it draws from
IsNullTurn(call, g) ==
    /\ call.op = "turn"
    /\ call.target = "discard" /\ call.source = "discard"
    /\ call.color \in ColorSet /\ call.draw_color = call.color
    /\ Contains(Hand(g, call.player), call.card)

\* C26. Null turn: for every card of the player's hand and every color c,
\* turn(play_target = discard, play_color = c, draw_source = discard,
\* draw_color = c) succeeds and gives the same card back: afterwards the deck,
\* the six discard piles, all expeditions and the other player's hand are
\* unchanged and the acting player's hand holds the same multiset of cards
\* (so the deck does not get smaller, turn after turn).
C26_NullTurn ==
    [][IsNullTurn(last', game) =>
        LET p == last'.player
            before == Hand(game, p)
            after == Hand(game', p)
        IN  /\ last'.err = ErrNone
            /\ last'.drawn = last'.card
            /\ game'.deck = game.deck
            /\ game'.discard_piles = game.discard_piles
            /\ \A q \in PLAYERS : game'.players[q].expeditions = game.players[q].expeditions
            /\ Hand(game', 1 - p) = Hand(game, 1 - p)
            /\ Len(after) = Len(before)
            /\ \A i \in 1..Len(before) :
                  Count(after, before[i]) = Count(before, before[i])]_vars

\* a null turn of a card of another color than the pile, with cards on that
\* pile and in the deck: the card is back, at the end of the hand
C26_Witness ==
    /\ last.op = "turn" /\ Nulls(last) >= 1 /\ last.err = ErrNone
    /\ last.card.color # last.color
    /\ Pile(game, last.color) # <<>>
    /\ game.deck # <<>>
    /\ Hand(game, last.player)[Len(Hand(game, last.player))] = last.card

\* the containers of a game: its deck, hands, expeditions and discard piles
Containers(g) ==
    [deck |-> g.deck, discard_piles |-> g.discard_piles,
     hands |-> [p \in PLAYERS |-> g.players[p].hand],
     expeditions |-> [p \in PLAYERS |-> g.players[p].expeditions]]

\* C23. Independence of games: two games share no mutable state; under every
\* interleaving of put, draw and turn calls on the two games, a call on one
\* game leaves the deck, hands, expeditions and discard piles of the other
\* unchanged (the engine keeps no deck, player or discard pile of its own).
C23_Independence ==
    [][/\ last'.on = 1 => Containers(game2') = Containers(game2)
       /\ last'.on = 2 => Containers(game') = Containers(game)]_vars

\* a successful call on the second game, after a call on the first
C23_Witness ==
    /\ last.on = 2 /\ last.err = ErrNone /\ nops = 2
    /\ Containers(game) # Containers(game2)

=============================================================================
